---- MODULE Spec2Model ----
(***************************************************************************)
(* start_server.py: a static file server with CORS headers, a start-up     *)
(* banner, a one-shot browser-open timer and Ctrl+C shutdown.               *)
(*                                                                         *)
(* Two invocations of the script (Procs) run on one host and share its     *)
(* TCP port table.  Each has a main thread (pc) and, once started, a       *)
(* Timer thread (timer).  Strings the program parses or formats (the port  *)
(* argument, the port inside the URL) are sequences of one-character       *)
(* strings; request paths are a sequence of segments plus a trailing-slash *)
(* flag.  Requests are well-formed HTTP/1.x requests, answered with a      *)
(* status line and a header block; a process receives at most one SIGINT,  *)
(* while its main thread is still inside main().                           *)
(***************************************************************************)
EXTENDS Integers, Sequences, FiniteSets, TLC

VARIABLES
    argv,       \* sys.argv of each invocation
    hasIndex,   \* whether the script directory holds index.html
    pc,         \* position of the main thread
    port,       \* local `port` of main()
    cwd,        \* process working directory: "caller" or "script"
    sock,       \* listening socket: "none", "bound", "closed"
    out,        \* lines printed so far, as markers
    started,    \* number of Timer threads started
    timer,      \* Timer thread: "unset", "pending", "opening", "done", "failed"
    opened,     \* URLs handed to webbrowser.open
    req,        \* the request of the connection being handled (<<>> or <<r>>)
    resp,       \* the response written on that connection (<<>> or <<r>>)
    errors,     \* whether some earlier request ended in an error
    exc,        \* exception propagating out of main(), "none" if none
    exitCode    \* process exit status, -1 while the process is alive

vars == <<argv, hasIndex, pc, port, cwd, sock, out, started, timer, opened,
          req, resp, errors, exc, exitCode>>

Procs == {1, 2}

----------------------------------------------------------------------------
(* int(sys.argv[1]) and f"{port}"                                          *)

Digits == <<"0", "1", "2", "3", "4", "5", "6", "7", "8", "9">>

IsDigit(c) == \E i \in 1..Len(Digits) : Digits[i] = c

DigitVal(c) == (CHOOSE i \in 1..Len(Digits) : Digits[i] = c) - 1

RECURSIVE DigitsValue(_)
DigitsValue(s) ==
    IF s = <<>> THEN 0
    ELSE DigitsValue(SubSeq(s, 1, Len(s) - 1)) * Len(Digits) + DigitVal(s[Len(s)])

\* a parser that reads what is not a number as 0 instead of raising
ParseIntLenient(s) ==
    LET ok == s /= <<>> /\ \A i \in 1..Len(s) : IsDigit(s[i])
    IN  [ok |-> TRUE, val |-> IF ok THEN DigitsValue(s) ELSE 0]

\* int(s): an optional sign, then one or more decimal digits; ValueError otherwise
ParseInt(s) ==
    LET signed == s /= <<>> /\ s[1] \in {"-", "+"}
        body   == IF signed THEN Tail(s) ELSE s
        ok     == body /= <<>> /\ \A i \in 1..Len(body) : IsDigit(body[i])
        mag    == IF ok THEN DigitsValue(body) ELSE 0
    IN  [ok |-> ok, val |-> IF signed /\ s[1] = "-" THEN 0 - mag ELSE mag]

RECURSIVE FormatNat(_)
FormatNat(n) ==
    IF n < Len(Digits) THEN <<Digits[n + 1]>>
    ELSE FormatNat(n \div Len(Digits)) \o <<Digits[(n % Len(Digits)) + 1]>>

\* str(n) as used by the f-string
FormatInt(n) == IF n < 0 THEN <<"-">> \o FormatNat(0 - n) ELSE FormatNat(n)

DefaultPort == 8000

ScriptName == <<"s", "t", "a", "r", "t">>

\* the command lines tried: no argument, "abc", "-1", "8001"
Argvs ==
    { <<ScriptName>>,
      <<ScriptName, <<"a", "b", "c">>>>,
      <<ScriptName, <<"-", "1">>>>,
      <<ScriptName, <<"8", "0", "0", "1">>>> }

\* ports the socket layer accepts in bind(); anything else raises OverflowError
ValidPorts == 0..65535

\* a port table that lets a held port be bound again
InUseIgnored == {}

\* ports held by a bound listening socket of some process
InUse == {port[q] : q \in {r \in Procs : sock[r] = "bound"}}

\* a URL built from the default port instead of the configured one
UrlDefaultPort(n) ==
    [scheme |-> "http", host |-> "localhost", port |-> FormatInt(DefaultPort)]

\* open_browser: url = f"http://localhost:{port}"
Url(n) == [scheme |-> "http", host |-> "localhost", port |-> FormatInt(n)]

----------------------------------------------------------------------------
(* The file system seen by the handler, relative to the working directory  *)

Dirs(root) == IF root = "script" THEN {<<>>, <<"docs">>} ELSE {<<>>}

Files(root, idx) ==
    IF root = "script"
    THEN (IF idx THEN {<<"index.html">>} ELSE {}) \cup {<<"secret.txt">>}
    ELSE {<<"index.html">>}

\* open(path, 'rb') succeeds
Readable(root, f) == f /= <<"secret.txt">>

Content(root, f) == IF root = "script" THEN "<html></html>" ELSE "caller-page"

Path(segs, slash) == [segs |-> segs, slash |-> slash]

\* cond: the request carries an If-Modified-Since date (and no If-None-Match)
\* that is not older than the file's modification time
Request(method, path, cond) == [method |-> method, path |-> path, cond |-> cond]

\* the requests clients send
Requests ==
    { Request("GET", Path(<<>>, TRUE), FALSE),                   \* GET /
      Request("GET", Path(<<"index.html">>, FALSE), FALSE),      \* GET /index.html
      Request("GET", Path(<<"index.html">>, FALSE), TRUE),       \* the same, conditional
      Request("GET", Path(<<"index.html">>, TRUE), FALSE),       \* GET /index.html/
      Request("GET", Path(<<"missing.html">>, FALSE), FALSE),    \* GET /missing.html
      Request("GET", Path(<<"docs">>, FALSE), FALSE),            \* GET /docs
      Request("GET", Path(<<"docs">>, TRUE), FALSE),             \* GET /docs/
      Request("GET", Path(<<"secret.txt">>, FALSE), FALSE),      \* GET /secret.txt
      Request("HEAD", Path(<<"index.html">>, FALSE), FALSE),     \* HEAD /index.html
      Request("HEAD", Path(<<"missing.html">>, FALSE), FALSE),   \* HEAD /missing.html
      Request("POST", Path(<<"index.html">>, FALSE), FALSE) }    \* POST /index.html

----------------------------------------------------------------------------
(* CORSHTTPRequestHandler: the header buffer and the handler methods       *)

NoBody == [kind |-> "none", data |-> ""]

SendResponse(code) ==
    [status  |-> code,
     headers |-> << <<"Server", "SimpleHTTP">>, <<"Date", "now">> >>,
     ended   |-> FALSE,
     body    |-> NoBody]

SendHeader(r, k, v) == [r EXCEPT !.headers = Append(@, <<k, v>>)]

\* BaseHTTPRequestHandler.end_headers: the blank line, then the buffer is flushed
BaseEndHeaders(r) == [r EXCEPT !.ended = TRUE]

CorsHeaders ==
    << <<"Access-Control-Allow-Origin", "*">>,
       <<"Access-Control-Allow-Methods", "GET, POST, OPTIONS">>,
       <<"Access-Control-Allow-Headers", "Content-Type">> >>

\* an override that sends the origin header alone
EndHeadersOriginOnly(r) ==
    BaseEndHeaders(SendHeader(r, CorsHeaders[1][1], CorsHeaders[1][2]))

EndHeaders(r) ==
    BaseEndHeaders(
        SendHeader(
            SendHeader(
                SendHeader(r, CorsHeaders[1][1], CorsHeaders[1][2]),
                CorsHeaders[2][1], CorsHeaders[2][2]),
            CorsHeaders[3][1], CorsHeaders[3][2]))

SendError(code, message, command) ==
    LET r1      == SendHeader(SendResponse(code), "Connection", "close")
        hasBody == code >= 200 /\ code \notin {204, 205, 304}
        r2      == IF hasBody
                   THEN SendHeader(SendHeader(r1, "Content-Type", "text/html"),
                                   "Content-Length", "n")
                   ELSE r1
        r3      == EndHeaders(r2)
    IN  IF command /= "HEAD" /\ hasBody
        THEN [r3 EXCEPT !.body = [kind |-> "error", data |-> message]]
        ELSE r3

\* a listing that is refused, as when os.listdir fails
ListDirectoryDenied(rq, root) ==
    [r |-> SendError(404, "No permission to list directory", rq.method),
     src |-> NoBody]

ListDirectory(rq, root) ==
    [r   |-> EndHeaders(SendHeader(SendHeader(SendResponse(200),
                                   "Content-type", "text/html"),
                                   "Content-Length", "n")),
     src |-> [kind |-> "listing", data |-> "Directory listing"]]

IndexNames == <<"index.html", "index.htm">>

\* send_head from `ctype = self.guess_type(path)` on, for the file f
ServeFile(rq, root, idx, f, trailing) ==
    IF trailing \/ f \notin Files(root, idx) \/ ~Readable(root, f)
    THEN [r |-> SendError(404, "File not found", rq.method), src |-> NoBody]
    ELSE IF rq.cond
    THEN [r |-> EndHeaders(SendResponse(304)), src |-> NoBody]
    ELSE [r   |-> EndHeaders(SendHeader(SendHeader(SendHeader(SendResponse(200),
                                        "Content-type", "text/html"),
                                        "Content-Length", "n"),
                                        "Last-Modified", "mtime")),
          src |-> [kind |-> "file", data |-> Content(root, f)]]

SendHead(rq, root, idx) ==
    LET segs  == rq.path.segs
        found == {i \in 1..Len(IndexNames) :
                     Append(segs, IndexNames[i]) \in Files(root, idx)}
    IN  IF segs \in Dirs(root)
        THEN IF ~rq.path.slash
             THEN [r   |-> EndHeaders(SendHeader(SendHeader(SendResponse(301),
                                                 "Location", "path/"),
                                                 "Content-Length", "0")),
                   src |-> NoBody]
             ELSE IF found /= {}
             THEN ServeFile(rq, root, idx,
                            Append(segs, IndexNames[CHOOSE i \in found :
                                                      \A j \in found : i <= j]),
                            FALSE)
             ELSE ListDirectory(rq, root)
        ELSE ServeFile(rq, root, idx, segs, rq.path.slash)

DoGET(rq, root, idx) ==
    LET h == SendHead(rq, root, idx)
    IN  IF h.src.kind /= "none" THEN [h.r EXCEPT !.body = h.src] ELSE h.r

DoHEAD(rq, root, idx) == SendHead(rq, root, idx).r

\* handle_one_request: dispatch on 'do_' + command
HandleOneRequest(rq, root, idx) ==
    IF rq.method = "GET" THEN DoGET(rq, root, idx)
    ELSE IF rq.method = "HEAD" THEN DoHEAD(rq, root, idx)
    ELSE SendError(501, "Unsupported method", rq.method)

----------------------------------------------------------------------------
(* Lifecycle                                                                *)

State(p) ==
    IF sock[p] = "bound" THEN "LISTENING"
    ELSE IF sock[p] = "closed" THEN "STOPPED"
    ELSE "NOT_STARTED"

Init ==
    /\ argv \in [Procs -> Argvs]
    /\ hasIndex \in BOOLEAN
    /\ pc = [p \in Procs |-> "parse"]
    /\ port = [p \in Procs |-> 0]
    /\ cwd = [p \in Procs |-> "caller"]
    /\ sock = [p \in Procs |-> "none"]
    /\ out = [p \in Procs |-> <<>>]
    /\ started = [p \in Procs |-> 0]
    /\ timer = [p \in Procs |-> "unset"]
    /\ opened = [p \in Procs |-> <<>>]
    /\ req = [p \in Procs |-> <<>>]
    /\ resp = [p \in Procs |-> <<>>]
    /\ errors = [p \in Procs |-> FALSE]
    /\ exc = [p \in Procs |-> "none"]
    /\ exitCode = [p \in Procs |-> -1]

\* line 22: port = int(sys.argv[1]) if len(sys.argv) > 1 else 8000
ParsePort(p) ==
    /\ pc[p] = "parse"
    /\ IF Len(argv[p]) > 1
       THEN LET n == ParseInt(argv[p][2])
            IN  IF n.ok
                THEN /\ port' = [port EXCEPT ![p] = n.val]
                     /\ pc' = [pc EXCEPT ![p] = "chdir"]
                     /\ exc' = exc
                ELSE /\ exc' = [exc EXCEPT ![p] = "ValueError"]
                     /\ pc' = [pc EXCEPT ![p] = "join"]
                     /\ port' = port
       ELSE /\ port' = [port EXCEPT ![p] = DefaultPort]
            /\ pc' = [pc EXCEPT ![p] = "chdir"]
            /\ exc' = exc
    /\ UNCHANGED <<argv, hasIndex, cwd, sock, out, started, timer, opened, req, resp,
                   errors, exitCode>>

\* a start-up that leaves the working directory where the caller had it
ChangeDirSkipped(p) ==
    /\ pc[p] = "chdir"
    /\ pc' = [pc EXCEPT ![p] = "bind"]
    /\ UNCHANGED <<argv, hasIndex, port, cwd, sock, out, started, timer,
                   opened, req, resp, errors, exc, exitCode>>

\* line 25: os.chdir(os.path.dirname(os.path.abspath(__file__)))
ChangeDir(p) ==
    /\ pc[p] = "chdir"
    /\ cwd' = [cwd EXCEPT ![p] = "script"]
    /\ pc' = [pc EXCEPT ![p] = "bind"]
    /\ UNCHANGED <<argv, hasIndex, port, sock, out, started, timer, opened, req, resp,
                   errors, exc, exitCode>>

\* line 38: socketserver.TCPServer(("", port), ...): bind and listen, or raise
Bind(p) ==
    /\ pc[p] = "bind"
    /\ IF port[p] \in ValidPorts /\ port[p] \notin InUse
       THEN /\ sock' = [sock EXCEPT ![p] = "bound"]
            /\ pc' = [pc EXCEPT ![p] = "banner"]
            /\ exc' = exc
       ELSE /\ exc' = [exc EXCEPT ![p] =
                          IF port[p] \in ValidPorts THEN "OSError"
                          ELSE "OverflowError"]
            /\ pc' = [pc EXCEPT ![p] = "join"]
            /\ sock' = sock
    /\ UNCHANGED <<argv, hasIndex, port, cwd, out, started, timer, opened, req, resp,
                   errors, exitCode>>

\* lines 39-48: the start-up banner
PrintBanner(p) ==
    /\ pc[p] = "banner"
    /\ out' = [out EXCEPT ![p] = Append(@, "banner")]
    /\ pc' = [pc EXCEPT ![p] = "timer"]
    /\ UNCHANGED <<argv, hasIndex, port, cwd, sock, started, timer, opened, req, resp,
                   errors, exc, exitCode>>

\* line 51: Timer(1.0, open_browser, [port]).start()
StartTimer(p) ==
    /\ pc[p] = "timer"
    /\ started' = [started EXCEPT ![p] = @ + 1]
    /\ timer' = [timer EXCEPT ![p] = "pending"]
    /\ pc' = [pc EXCEPT ![p] = "enter"]
    /\ UNCHANGED <<argv, hasIndex, port, cwd, sock, out, opened, req, resp,
                   errors, exc, exitCode>>

\* lines 53-54: the try block is entered and serve_forever() starts polling
EnterServe(p) ==
    /\ pc[p] = "enter"
    /\ pc' = [pc EXCEPT ![p] = "serve"]
    /\ UNCHANGED <<argv, hasIndex, port, cwd, sock, out, started, timer, opened, req,
                   resp, errors, exc, exitCode>>

\* serve_forever: a connection is accepted and its request line read
Accept(p, rq) ==
    /\ pc[p] = "serve"
    /\ req' = [req EXCEPT ![p] = <<rq>>]
    /\ pc' = [pc EXCEPT ![p] = "handle"]
    /\ UNCHANGED <<argv, hasIndex, port, cwd, sock, out, started, timer, opened, resp,
                   errors, exc, exitCode>>

\* the handler answers the request; the root is the working directory
Respond(p) ==
    /\ pc[p] = "handle"
    /\ LET r == HandleOneRequest(req[p][1], cwd[p], hasIndex)
       IN  /\ resp' = [resp EXCEPT ![p] = <<r>>]
           /\ errors' = [errors EXCEPT ![p] = @ \/ r.status >= 400]
    /\ pc' = [pc EXCEPT ![p] = "finish"]
    /\ UNCHANGED <<argv, hasIndex, port, cwd, sock, out, started, timer, opened, req,
                   exc, exitCode>>

\* a handler exception that is not caught and leaves serve_forever and main()
RequestFailsFatal(p) ==
    /\ pc[p] = "handle"
    /\ errors' = [errors EXCEPT ![p] = TRUE]
    /\ req' = [req EXCEPT ![p] = <<>>]
    /\ exc' = [exc EXCEPT ![p] = "Exception"]
    /\ pc' = [pc EXCEPT ![p] = "close"]
    /\ UNCHANGED <<argv, hasIndex, port, cwd, sock, out, started, timer,
                   opened, resp, exitCode>>

\* the handler raises (the client went away): socketserver's handle_error
\* reports it, shutdown_request closes the connection, the serve loop goes on
RequestFails(p) ==
    /\ pc[p] = "handle"
    /\ errors' = [errors EXCEPT ![p] = TRUE]
    /\ req' = [req EXCEPT ![p] = <<>>]
    /\ pc' = [pc EXCEPT ![p] = "serve"]
    /\ UNCHANGED <<argv, hasIndex, port, cwd, sock, out, started, timer, opened, resp,
                   exc, exitCode>>

\* shutdown_request: the connection is closed, back to polling
FinishRequest(p) ==
    /\ pc[p] = "finish"
    /\ req' = [req EXCEPT ![p] = <<>>]
    /\ resp' = [resp EXCEPT ![p] = <<>>]
    /\ pc' = [pc EXCEPT ![p] = "serve"]
    /\ UNCHANGED <<argv, hasIndex, port, cwd, sock, out, started, timer, opened,
                   errors, exc, exitCode>>

\* where a KeyboardInterrupt raised at position at is caught, or how it leaves
\* main(): the except clause of line 55 covers serve_forever() only; the with
\* statement of line 38 closes the server on the way out
InterruptTarget(at) ==
    IF at \in {"serve", "handle", "finish"} THEN "stopmsg"
    ELSE IF at \in {"banner", "timer", "enter"} THEN "close"
    ELSE "join"

\* SIGINT: KeyboardInterrupt is raised in the main thread, wherever it is
Interrupt(p) ==
    /\ pc[p] \in {"parse", "chdir", "bind", "banner", "timer", "enter",
                  "serve", "handle", "finish"}
    /\ pc' = [pc EXCEPT ![p] = InterruptTarget(pc[p])]
    /\ exc' = [exc EXCEPT ![p] =
                  IF InterruptTarget(pc[p]) = "stopmsg" THEN "none"
                  ELSE "KeyboardInterrupt"]
    /\ req' = [req EXCEPT ![p] = <<>>]
    /\ resp' = [resp EXCEPT ![p] = <<>>]
    /\ UNCHANGED <<argv, hasIndex, port, cwd, sock, out, started, timer, opened,
                   errors, exitCode>>

\* line 56: print("Server stopped")
PrintStopped(p) ==
    /\ pc[p] = "stopmsg"
    /\ out' = [out EXCEPT ![p] = Append(@, "stopped")]
    /\ pc' = [pc EXCEPT ![p] = "close"]
    /\ UNCHANGED <<argv, hasIndex, port, cwd, sock, started, timer, opened, req, resp,
                   errors, exc, exitCode>>

\* the end of the with statement: httpd.server_close()
ServerClose(p) ==
    /\ pc[p] = "close"
    /\ sock' = [sock EXCEPT ![p] = "closed"]
    /\ pc' = [pc EXCEPT ![p] = "join"]
    /\ UNCHANGED <<argv, hasIndex, port, cwd, out, started, timer, opened, req, resp,
                   errors, exc, exitCode>>

\* main() is over: the interpreter joins the Timer thread (it is not a daemon)
\* and exits, 0 unless an exception left main()
ExitStatus(e) == IF e = "none" THEN 0 ELSE IF e = "KeyboardInterrupt" THEN 130 ELSE 1

\* a Timer thread that does not keep the interpreter alive (a daemon thread)
TimerJoinedDaemon(t) == TRUE

TimerJoined(t) == t \in {"unset", "done", "failed"}

Exit(p) ==
    /\ pc[p] = "join"
    /\ TimerJoined(timer[p])
    /\ exitCode' = [exitCode EXCEPT ![p] = ExitStatus(exc[p])]
    /\ pc' = [pc EXCEPT ![p] = "exited"]
    /\ UNCHANGED <<argv, hasIndex, port, cwd, sock, out, started, timer,
                   opened, req, resp, errors, exc>>

\* open_browser called from the serve loop instead of a thread of its own
OpenBrowserInline(p) ==
    /\ timer[p] = "pending"
    /\ pc[p] = "serve"
    /\ out' = [out EXCEPT ![p] = Append(@, "opening")]
    /\ opened' = [opened EXCEPT ![p] = Append(@, Url(port[p]))]
    /\ timer' = [timer EXCEPT ![p] = "opening"]
    /\ UNCHANGED <<argv, hasIndex, pc, port, cwd, sock, started, req, resp,
                   errors, exc, exitCode>>

\* the Timer thread wakes up and runs open_browser(port), lines 16-18
OpenBrowser(p) ==
    /\ timer[p] = "pending"
    /\ exitCode[p] = -1
    /\ out' = [out EXCEPT ![p] = Append(@, "opening")]
    /\ opened' = [opened EXCEPT ![p] = Append(@, Url(port[p]))]
    /\ timer' = [timer EXCEPT ![p] = "opening"]
    /\ UNCHANGED <<argv, hasIndex, pc, port, cwd, sock, started, req, resp,
                   errors, exc, exitCode>>

\* webbrowser.open returns, having launched a browser or not ("done"), or
\* raises ("failed"): in each case the Timer thread ends
BrowserReturns(p, outcome) ==
    /\ timer[p] = "opening"
    /\ exitCode[p] = -1
    /\ timer' = [timer EXCEPT ![p] = outcome]
    /\ UNCHANGED <<argv, hasIndex, pc, port, cwd, sock, out, started, opened,
                   req, resp, errors, exc, exitCode>>

Next ==
    \E p \in Procs :
        \/ ParsePort(p)
        \/ ChangeDir(p)
        \/ Bind(p)
        \/ PrintBanner(p)
        \/ StartTimer(p)
        \/ EnterServe(p)
        \/ \E rq \in Requests : Accept(p, rq)
        \/ Respond(p)
        \/ RequestFails(p)
        \/ FinishRequest(p)
        \/ Interrupt(p)
        \/ PrintStopped(p)
        \/ ServerClose(p)
        \/ Exit(p)
        \/ OpenBrowser(p)
        \/ \E outcome \in {"done", "failed"} : BrowserReturns(p, outcome)

Spec == Init /\ [][Next]_vars

\* the Timer thread is a thread of its own: once its delay is over it runs
\* open_browser, whatever the main thread does
FairSpec == Spec /\ \A p \in Procs : WF_vars(OpenBrowser(p))

----------------------------------------------------------------------------
(* Properties                                                               *)

HeaderCount(r, k) == Cardinality({i \in 1..Len(r.headers) : r.headers[i][1] = k})

BadPortArg(a) ==
    /\ Len(a) > 1
    /\ \/ a[2] = <<>>
       \/ \E i \in 1..Len(a[2]) :
              a[2][i] \notin {"0", "1", "2", "3", "4", "5", "6", "7", "8", "9"}

\* C2: with a port argument that is no non-negative integer the process never
\* binds, never prints the banner, never starts the timer or opens the
\* browser, and its exit status is not 0.
C2_BadPortFailsStartup ==
    \A p \in Procs :
        BadPortArg(argv[p]) =>
            /\ sock[p] = "none"
            /\ State(p) = "NOT_STARTED"
            /\ pc[p] \in {"parse", "chdir", "bind", "join", "exited"}
            /\ out[p] = <<>>
            /\ started[p] = 0
            /\ timer[p] = "unset"
            /\ opened[p] = <<>>
            /\ exitCode[p] /= 0
            /\ (pc[p] = "exited" => exitCode[p] > 0)

\* both bad arguments have run to their exit: "abc" and "-1"
C2_Witness ==
    \E p, q \in Procs :
        /\ argv[p][Len(argv[p])] = <<"a", "b", "c">>
        /\ argv[q][Len(argv[q])] = <<"-", "1">>
        /\ pc[p] = "exited" /\ exc[p] = "ValueError"
        /\ pc[q] = "exited" /\ exc[q] = "OverflowError"

\* ports on which some process is listening
Listening(n) == {p \in Procs : sock[p] = "bound" /\ port[p] = n}

\* the part of the state that belongs to process p
Own(p) == <<pc[p], port[p], cwd[p], sock[p], out[p], started[p], timer[p],
            opened[p], req[p], resp[p], errors[p], exc[p], exitCode[p]>>

\* C3: no port ever has two listeners; a process that reaches bind while
\* another holds its port leaves bind by failing (no retry, no socket), never
\* prints the banner or starts the timer, exits non-zero, and its failure
\* leaves the holder's state untouched.
C3_SecondInstanceFails ==
    /\ [](\A p \in Procs : Cardinality(Listening(port[p])) <= 1)
    /\ [](\A q \in Procs :
              exc[q] = "OSError" =>
                  /\ pc[q] \in {"join", "exited"}
                  /\ sock[q] = "none"
                  /\ out[q] = <<>>
                  /\ started[q] = 0
                  /\ opened[q] = <<>>
                  /\ exitCode[q] /= 0
                  /\ (pc[q] = "exited" => exitCode[q] > 0))
    /\ [][\A q \in Procs :
              (/\ pc[q] = "bind"
               /\ Listening(port[q]) /= {}
               /\ pc'[q] /= "bind")
              => /\ pc'[q] = "join"
                 /\ exc'[q] /= "none"
                 /\ sock'[q] = "none"
                 /\ \A p \in Procs \ {q} : Own(p)' = Own(p)]_vars

\* the first instance serves a request while the second has failed and exited
C3_Witness ==
    \E p, q \in Procs :
        /\ p /= q
        /\ port[p] = port[q]
        /\ sock[p] = "bound" /\ pc[p] = "handle"
        /\ exc[q] = "OSError" /\ pc[q] = "exited"

\* C4 (as claimed): a process that was listening and has exited was stopped by
\* an interrupt, so it has printed the shutdown message, released the socket,
\* holds no connection and exited with status 0.
C4_InterruptStopsCleanly ==
    \A p \in Procs :
        (pc[p] = "exited" /\ State(p) = "STOPPED") =>
            /\ req[p] = <<>>
            /\ sock[p] = "closed"
            /\ \E i \in 1..Len(out[p]) : out[p][i] = "stopped"
            /\ exitCode[p] = 0

\* having been interrupted between bind and the serve loop, the process is gone
C4_Witness ==
    \E p \in Procs :
        /\ pc[p] = "exited"
        /\ State(p) = "STOPPED"
        /\ exc[p] = "KeyboardInterrupt"

\* the URL for the port the command line configures
ExpectedUrl(a) ==
    [scheme |-> "http", host |-> "localhost",
     port |-> IF Len(a) > 1 THEN a[2] ELSE <<"8", "0", "0", "0">>]

\* C5: the timer is started at most once and only with the socket bound; a
\* process that got through start-up (is past line 51) has started it exactly
\* once; the browser is opened at most once, only by a started timer, with
\* http://localhost:<configured port>; a process that never bound opens nothing.
C5_BrowserScheduledOnce ==
    \A p \in Procs :
        /\ started[p] <= 1
        /\ (started[p] > 0 => State(p) /= "NOT_STARTED")
        /\ (pc[p] \in {"enter", "serve", "handle", "finish", "stopmsg"}
               => started[p] = 1)
        /\ Len(opened[p]) <= started[p]
        /\ (opened[p] /= <<>> => opened[p][1] = ExpectedUrl(argv[p]))
        /\ (State(p) = "NOT_STARTED" => started[p] = 0 /\ opened[p] = <<>>)

\* the browser was opened for port 8001 while a request is being handled
C5_Witness ==
    \E p \in Procs :
        /\ Len(argv[p]) > 1
        /\ opened[p] = <<ExpectedUrl(argv[p])>>
        /\ pc[p] = "handle"

\* the main thread's share of the state of process p
ServerState(p) == <<pc[p], sock[p], req[p], resp[p], errors[p], exc[p], exitCode[p]>>

\* C6: a due timer can always run open_browser, whatever the main thread is
\* doing (idle, or in the middle of a request); a step of the browser-open
\* action, whatever its outcome, changes nothing of the server; and the serve
\* loop accepts the next request whatever the state of the action.
C6_BrowserIndependent ==
    /\ [](\A p \in Procs : timer[p] = "pending" => ENABLED OpenBrowser(p))
    /\ [](\A p \in Procs :
              pc[p] = "serve" =>
                  /\ State(p) = "LISTENING"
                  /\ \A rq \in Requests : ENABLED Accept(p, rq))
    /\ [][\A p \in Procs :
              timer'[p] /= timer[p] /\ timer[p] /= "unset"
                  => ServerState(p)' = ServerState(p)]_vars

\* the browser is still being opened while a response is on the wire
C6_Witness ==
    \E p \in Procs :
        /\ timer[p] = "opening"
        /\ resp[p] /= <<>>

\* C7: once a request has ended in an error (a 4xx/5xx answer or an exception
\* in the handler) no exception leaves main(), the serve loop still holds the
\* bound socket, and a later request gets the answer the handler gives from
\* the script directory alone.
C7_RequestErrorsContained ==
    /\ [](\A p \in Procs :
              errors[p] =>
                  /\ exc[p] = "none"
                  /\ (pc[p] \in {"serve", "handle", "finish"} => sock[p] = "bound")
                  /\ (resp[p] /= <<>> =>
                         resp[p][1] = HandleOneRequest(req[p][1], "script", hasIndex)))
    /\ [][\A p \in Procs :
              (errors'[p] /\ ~errors[p])
                  => /\ State(p)' = "LISTENING"
                     /\ pc'[p] \in {"serve", "finish"}
                     /\ exc'[p] = "none"]_vars

\* after an earlier error, a request is answered with 200
C7_Witness ==
    \E p \in Procs :
        /\ errors[p]
        /\ resp[p] /= <<>>
        /\ resp[p][1].status = 200
        /\ resp[p][1].body.kind = "file"

IsFilePath(path) == ~path.slash /\ path.segs \in Files("script", hasIndex)

IsDirPath(path) == path.segs \in Dirs("script")

C9_Lifecycle ==
    /\ [](\A p \in Procs :
              /\ (req[p] /= <<>> \/ resp[p] /= <<>> => State(p) = "LISTENING")
              /\ (pc[p] \in {"handle", "finish"} => State(p) = "LISTENING")
              /\ (State(p) = "LISTENING" => cwd[p] = "script")
              /\ (exc[p] \in {"ValueError", "OverflowError", "OSError"}
                     => State(p) = "NOT_STARTED"))
    /\ [][\A p \in Procs :
              State(p)' /= State(p) =>
                  \/ /\ State(p) = "NOT_STARTED"
                     /\ State(p)' = "LISTENING"
                     /\ pc[p] = "bind"
                     /\ cwd[p] = "script"
                     /\ Listening(port[p]) = {}
                  \/ /\ State(p) = "LISTENING"
                     /\ State(p)' = "STOPPED"]_vars

\* one process went through all three states and exited 0, the other failed
\* its start-up and exited without ever listening
C9_Witness ==
    \E p, q \in Procs :
        /\ State(p) = "STOPPED" /\ pc[p] = "exited" /\ exitCode[p] = 0
        /\ State(q) = "NOT_STARTED" /\ pc[q] = "exited" /\ exitCode[q] = 1

\* C10: a started timer is never cancelled: while pending it stays pending
\* until open_browser runs, it does run eventually (also after the interrupt
\* and the release of the socket), and the process does not exit before the
\* Timer thread has ended.
C10_TimerSurvivesShutdown ==
    /\ \A p \in Procs : (timer[p] = "pending") ~> (opened[p] /= <<>>)
    /\ [](\A p \in Procs :
              (pc[p] = "exited" /\ started[p] > 0) =>
                  /\ opened[p] /= <<>>
                  /\ timer[p] \in {"done", "failed"})
    /\ [][\A p \in Procs :
              timer[p] = "pending" => timer'[p] \in {"pending", "opening"}]_vars

\* the browser was opened after the shutdown message, and the process is gone
C10_Witness ==
    \E p \in Procs :
        /\ out[p] = <<"banner", "stopped", "opening">>
        /\ State(p) = "STOPPED"
        /\ pc[p] = "exited"

====
